---- MODULE Spec2Model ----
(***************************************************************************)
(* A model of the real-time audio client of CallerGuy.                     *)
(*                                                                         *)
(*   LiveClient  (src/unnamed/part_004, services/liveClient)               *)
(*   ActiveCall  (src/components/ActiveCall.tsx)                           *)
(*                                                                         *)
(* Every async method is cut at its awaits: one action per synchronous     *)
(* stretch of code.  The browser (audio contexts, microphone) and the      *)
(* remote endpoint are the environment; their answers are nondeterministic. *)
(* Resources are named by the number of the connect() call that made them. *)
(***************************************************************************)
EXTENDS Integers, Sequences, FiniteSets, TLC

\* ---------------------------------------------------------------- bounds
MaxCalls == 3           \* connect() and disconnect() calls made on the one LiveClient
MaxPending == 2         \* handleMessage invocations suspended at the decode
MaxQueue == 2           \* buffers in audioQueue
MaxClock == 3           \* last value of the output clock
MaxDur == 2             \* longest decoded buffer
MaxCursor == 5          \* largest playback cursor
MaxLines == 2           \* transcript lines of one call
MaxTimeouts == 1        \* pending end-of-call timeouts
MaxHangUps == 2         \* handleHangUp invocations
MaxGradings == 2        \* handleEndCall invocations
MaxDuration == 3        \* seconds counted by the duration timer

\* setTimeout(..., 3000) in onTranscript, in seconds
EndCallDelay == 3

Conns == 1..MaxCalls
Discs == 1..MaxCalls
Durations == 1..MaxDur
Null == 0

VARIABLES
  \* the fields of LiveClient
  inputAudioContext, outputAudioContext, nextStartTime, stream, sessionPromise,
  scriptProcessor, sourceNode, isConnected, audioQueue,
  \* the browser and the remote endpoint
  inCtx, outCtx, mic, trackEnabled, session, graph, clock,
  \* the calls in flight
  conn, disc, pending,
  \* what the last step called outside the client, and the history the claims name
  calls, hist, afterInterrupt, muteHist,
  \* the state, refs and closures of ActiveCall, its timeouts and its async handlers
  status, errorMessage, duration, liveClientRef, timerRef, transcriptRef,
  isMountedRef, client, ignore, interval, timeouts, startCall, hang, ended,
  \* the state of App that a call's end touches, and the last gradeCall made
  appState, isProcessing, sessions, grading, graded

clientVars == <<inputAudioContext, outputAudioContext, nextStartTime, stream,
                sessionPromise, scriptProcessor, sourceNode, isConnected, audioQueue>>
envVars == <<inCtx, outCtx, mic, trackEnabled, session, graph, clock>>
procVars == <<conn, disc, pending>>
obsVars == <<calls, hist, afterInterrupt, muteHist>>
appVars == <<status, errorMessage, duration, liveClientRef, timerRef, transcriptRef,
             isMountedRef, client, ignore, interval, timeouts, startCall, hang, ended>>
rootVars == <<appState, isProcessing, sessions, grading, graded>>
vars == <<clientVars, envVars, procVars, obsVars, appVars, rootVars>>

\* the lifecycle calls made so far
CallsMade ==
  Cardinality({c \in Conns : conn[c] # "idle"})
    + Cardinality({d \in Discs : disc[d].pc # "idle"})

\* a promise of live.connect() is settled once the session opened or failed
SessionResolved(p) == session[p] \in {"open", "errored", "closing", "closed"}
SessionRejected(p) == session[p] = "failed"

IdleDisc == [pc |-> "idle", p |-> Null, own |-> FALSE]
IdleHang == [pc |-> "idle", d |-> Null, origin |-> "none", age |-> 0]
HangUps == 1..MaxHangUps

Init ==
  /\ inputAudioContext = Null
  /\ outputAudioContext = Null
  /\ nextStartTime = 0
  /\ stream = Null
  /\ sessionPromise = Null
  /\ scriptProcessor = Null
  /\ sourceNode = Null
  /\ isConnected = FALSE
  /\ audioQueue = <<>>
  /\ inCtx = [c \in Conns |-> "none"]
  /\ outCtx = [c \in Conns |-> "none"]
  /\ mic = [c \in Conns |-> "none"]
  /\ trackEnabled = [c \in Conns |-> FALSE]
  /\ session = [c \in Conns |-> "none"]
  /\ graph = [c \in Conns |-> "none"]
  /\ clock = 0
  /\ conn = [c \in Conns |-> "idle"]
  /\ disc = [d \in Discs |-> IdleDisc]
  /\ pending = <<>>
  /\ calls = <<>>
  /\ hist = "none"
  /\ afterInterrupt = "no"
  /\ muteHist = "none"
  /\ status = "connecting"
  /\ errorMessage = ""
  /\ duration = 0
  /\ liveClientRef = FALSE
  /\ timerRef = FALSE
  /\ transcriptRef = <<>>
  /\ isMountedRef = TRUE
  /\ client = FALSE
  /\ ignore = FALSE
  /\ interval = FALSE
  /\ timeouts = <<>>
  /\ startCall = [pc |-> "idle", d |-> Null, key |-> "unread"]
  /\ hang = [h \in HangUps |-> IdleHang]
  /\ ended = <<>>
  /\ appState = "IN_CALL"
  /\ isProcessing = FALSE
  /\ sessions = <<>>
  /\ grading = <<>>
  /\ graded = [made |-> FALSE]

\* ------------------------------------------------------- LiveClient.connect

\* connect(), up to its first await (inputAudioContext.resume())
Connect(c) ==
  /\ conn[c] = "idle"
  /\ \A b \in Conns : b < c => conn[b] # "idle"
  /\ CallsMade < MaxCalls
  /\ hist' = "connect"
  /\ calls' = <<>>
  /\ IF isConnected
     THEN /\ conn' = [conn EXCEPT ![c] = "resolved"]
          /\ UNCHANGED <<inputAudioContext, outputAudioContext, inCtx, outCtx, clock>>
     ELSE /\ conn' = [conn EXCEPT ![c] = "resumeIn"]
          /\ inputAudioContext' = c
          /\ outputAudioContext' = c
          /\ inCtx' = [inCtx EXCEPT ![c] = "open"]
          /\ outCtx' = [outCtx EXCEPT ![c] = "open"]
          /\ clock' = 0
  /\ UNCHANGED <<nextStartTime, stream, sessionPromise, scriptProcessor, sourceNode,
                 isConnected, audioQueue, mic, trackEnabled, session, graph,
                 disc, pending, afterInterrupt, muteHist>>

\* inputAudioContext.resume() resolved; this.outputAudioContext.resume() is called next
ConnectResumedInput(c) ==
  /\ conn[c] = "resumeIn"
  /\ conn' = [conn EXCEPT ![c] = IF outputAudioContext = Null THEN "rejected"
                                 ELSE "resumeOut"]
  /\ calls' = <<>>
  /\ UNCHANGED <<clientVars, envVars, disc, pending, hist, afterInterrupt, muteHist>>

\* outputAudioContext.resume() resolved; getUserMedia is requested
ConnectResumedOutput(c) ==
  /\ conn[c] = "resumeOut"
  /\ conn' = [conn EXCEPT ![c] = "gum"]
  /\ calls' = << <<"getUserMedia">> >>
  /\ UNCHANGED <<clientVars, envVars, disc, pending, hist, afterInterrupt, muteHist>>

\* resume() of a context that was closed meanwhile rejects: connect() rejects
ConnectResumeRejected(c) ==
  /\ \/ conn[c] = "resumeIn" /\ inCtx[c] # "open"
     \/ conn[c] = "resumeOut" /\ outCtx[c] # "open"
  /\ conn' = [conn EXCEPT ![c] = "rejected"]
  /\ calls' = <<>>
  /\ UNCHANGED <<clientVars, envVars, disc, pending, hist, afterInterrupt, muteHist>>

\* getUserMedia resolved: this.stream is set and the remote session is requested
ConnectGotStream(c) ==
  /\ conn[c] = "gum"
  /\ conn' = [conn EXCEPT ![c] = "session"]
  /\ stream' = c
  /\ mic' = [mic EXCEPT ![c] = "live"]
  /\ trackEnabled' = [trackEnabled EXCEPT ![c] = TRUE]
  /\ sessionPromise' = c
  /\ session' = [session EXCEPT ![c] = "opening"]
  /\ calls' = << <<"live.connect">> >>
  /\ muteHist' = "none"
  /\ UNCHANGED <<inputAudioContext, outputAudioContext, nextStartTime, scriptProcessor,
                 sourceNode, isConnected, audioQueue, inCtx, outCtx, graph, clock,
                 disc, pending, hist, afterInterrupt>>

\* what ConnectMicDenied must not be: the denial swallowed, connect() going on
\* to request the remote session without a stream
ConnectMicDeniedFallsThrough(c) ==
  /\ conn[c] = "gum"
  /\ conn' = [conn EXCEPT ![c] = "session"]
  /\ sessionPromise' = c
  /\ session' = [session EXCEPT ![c] = "opening"]
  /\ calls' = << <<"live.connect">> >>
  /\ UNCHANGED <<inputAudioContext, outputAudioContext, nextStartTime, stream,
                 scriptProcessor, sourceNode, isConnected, audioQueue, inCtx, outCtx,
                 mic, trackEnabled, graph, clock, disc, pending, hist,
                 afterInterrupt, muteHist>>

\* getUserMedia rejected: connect() rethrows
ConnectMicDenied(c) ==
  /\ conn[c] = "gum"
  /\ conn' = [conn EXCEPT ![c] = "rejected"]
  /\ calls' = <<>>
  /\ UNCHANGED <<clientVars, envVars, disc, pending, hist, afterInterrupt, muteHist>>

\* await this.sessionPromise settled in connect()
ConnectSessionSettled(c) ==
  /\ conn[c] = "session"
  /\ \/ /\ SessionResolved(c)
        /\ isConnected' = TRUE
        /\ conn' = [conn EXCEPT ![c] = "resolved"]
     \/ /\ SessionRejected(c)
        /\ conn' = [conn EXCEPT ![c] = "rejected"]
        /\ UNCHANGED isConnected
  /\ calls' = <<>>
  /\ UNCHANGED <<inputAudioContext, outputAudioContext, nextStartTime, stream,
                 sessionPromise, scriptProcessor, sourceNode, audioQueue,
                 envVars, disc, pending, hist, afterInterrupt, muteHist>>

\* ------------------------------------------- the remote session's callbacks

\* onopen of session c: LiveClient.handleOpen builds the capture graph
SessionOpened(c) ==
  /\ session[c] = "opening"
  /\ session' = [session EXCEPT ![c] = "open"]
  /\ IF inputAudioContext = Null \/ stream = Null \/ sessionPromise = Null
     THEN UNCHANGED <<sourceNode, scriptProcessor, graph>>
     ELSE /\ sourceNode' = c
          /\ scriptProcessor' = c
          /\ graph' = [graph EXCEPT ![c] = "connected"]
  /\ calls' = <<>>
  /\ UNCHANGED <<inputAudioContext, outputAudioContext, nextStartTime, stream,
                 sessionPromise, isConnected, audioQueue, inCtx, outCtx, mic,
                 trackEnabled, clock, procVars, hist, afterInterrupt, muteHist>>

\* the remote endpoint refuses the session: the promise of live.connect() rejects
SessionRefused(c) ==
  /\ session[c] = "opening"
  /\ session' = [session EXCEPT ![c] = "failed"]
  /\ calls' = <<>>
  /\ UNCHANGED <<clientVars, inCtx, outCtx, mic, trackEnabled, graph, clock,
                 procVars, hist, afterInterrupt, muteHist>>

\* what SessionClosed must not be: the close kept from the caller
SessionClosedSilent(c) ==
  /\ session[c] \in {"open", "errored", "closing"}
  /\ session' = [session EXCEPT ![c] = "closed"]
  /\ isConnected' = FALSE
  /\ calls' = <<>>
  /\ UNCHANGED <<inputAudioContext, outputAudioContext, nextStartTime, stream,
                 sessionPromise, scriptProcessor, sourceNode, audioQueue,
                 inCtx, outCtx, mic, trackEnabled, graph, clock,
                 procVars, hist, afterInterrupt, muteHist>>

\* onclose of session c (remote close, or the close the client asked for):
\* LiveClient.handleClose
SessionClosed(c) ==
  /\ session[c] \in {"open", "errored", "closing"}
  /\ session' = [session EXCEPT ![c] = "closed"]
  /\ isConnected' = FALSE
  /\ calls' = << <<"onClose">> >>
  /\ UNCHANGED <<inputAudioContext, outputAudioContext, nextStartTime, stream,
                 sessionPromise, scriptProcessor, sourceNode, audioQueue,
                 inCtx, outCtx, mic, trackEnabled, graph, clock,
                 procVars, hist, afterInterrupt, muteHist>>

\* onerror of session c: the inline callback forwards to config.onClose
SessionError(c) ==
  /\ session[c] = "open"
  /\ session' = [session EXCEPT ![c] = "errored"]
  /\ calls' = << <<"onClose">> >>
  /\ UNCHANGED <<clientVars, inCtx, outCtx, mic, trackEnabled, graph, clock,
                 procVars, hist, afterInterrupt, muteHist>>

\* what AudioProcess must not be: the frame handled without the test of
\* inputAudioContext
AudioProcessUnguarded(g, loud) ==
  /\ graph[g] = "connected"
  /\ calls' = (IF loud THEN << <<"onAudioData">> >> ELSE <<>>)
              \o << <<"createPcmBlob">> >>
              \o (IF sessionPromise # Null /\ session[sessionPromise] = "open"
                  THEN << <<"sendRealtimeInput", sessionPromise>> >> ELSE <<>>)
  /\ UNCHANGED <<clientVars, envVars, procVars, hist, afterInterrupt, muteHist>>

\* scriptProcessor.onaudioprocess of the capture graph g, for one captured frame
AudioProcess(g, loud) ==
  /\ graph[g] = "connected"
  /\ calls' = IF inputAudioContext = Null THEN <<>>
              ELSE (IF loud THEN << <<"onAudioData">> >> ELSE <<>>)
                   \o << <<"createPcmBlob">> >>
                   \o (IF sessionPromise # Null /\ session[sessionPromise] = "open"
                       THEN << <<"sendRealtimeInput", sessionPromise>> >> ELSE <<>>)
  /\ UNCHANGED <<clientVars, envVars, procVars, hist, afterInterrupt, muteHist>>

\* what AudioProcessSendFailed must not be: the failed send treated as the end
\* of the connection
AudioProcessSendAborts(g, loud) ==
  /\ graph[g] = "connected"
  /\ inputAudioContext # Null
  /\ sessionPromise # Null
  /\ SessionResolved(sessionPromise) \/ SessionRejected(sessionPromise)
  /\ isConnected' = FALSE
  /\ calls' = (IF loud THEN << <<"onAudioData">> >> ELSE <<>>)
              \o << <<"createPcmBlob">>, <<"console.debug">>, <<"onClose">> >>
  /\ UNCHANGED <<inputAudioContext, outputAudioContext, nextStartTime, stream,
                 sessionPromise, scriptProcessor, sourceNode, audioQueue,
                 envVars, procVars, hist, afterInterrupt, muteHist>>

\* onaudioprocess for one captured frame whose send fails: sessionPromise is
\* rejected or sendRealtimeInput throws, and the catch handler logs it
AudioProcessSendFailed(g, loud) ==
  /\ graph[g] = "connected"
  /\ inputAudioContext # Null
  /\ sessionPromise # Null
  /\ SessionResolved(sessionPromise) \/ SessionRejected(sessionPromise)
  /\ calls' = (IF loud THEN << <<"onAudioData">> >> ELSE <<>>)
              \o << <<"createPcmBlob">>, <<"console.debug">> >>
  /\ UNCHANGED <<clientVars, envVars, procVars, hist, afterInterrupt, muteHist>>

\* ------------------------------------------------- LiveClient.handleMessage

\* a text is a sequence of pieces of a string; the end-of-call marker
\* '[[END_CALL]]' is two pieces, so that a text can hold it whole or in part
Marker == <<"[[END_", "CALL]]">>
Plain == <<"x">>
Texts == {Plain, <<"x", "[[END_", "CALL]]">>, <<"x", "[[END_">>, <<"CALL]]", "x">>}
NoText == <<>>
Messages == [inTr : Texts \cup {NoText}, outTr : Texts \cup {NoText},
             audio : {"none", "ok", "malformed"}, interrupted : BOOLEAN]

Transcripts(m) ==
  (IF m.inTr # NoText THEN << <<"onTranscript", m.inTr, TRUE>> >> ELSE <<>>)
  \o (IF m.outTr # NoText THEN << <<"onTranscript", m.outTr, FALSE>> >> ELSE <<>>)

StopAll(q) == [i \in 1..Len(q) |-> <<"stop", q[i].start>>]

\* what StartTime and Advance must not be: the cursor taken as it is, the clock
\* taken whatever the cursor, the cursor left where the buffer starts
StartTimeNoDrift(cursor, now) == cursor
\* the drift test inverted: the cursor pulled back to the clock when ahead of it
StartTimeInverted(cursor, now) == IF cursor > now THEN now ELSE cursor
StartTimeNow(cursor, now) == now
AdvanceNone(start, dur) == start

\* the start time given to source.start(): the cursor after drift correction
StartTime(cursor, now) == IF cursor < now THEN now ELSE cursor

\* the cursor after a buffer of duration dur was started at start
Advance(start, dur) == start + dur

\* "Handle Interruption": every source stopped, the queue cleared, the cursor reset
Interrupt(q) ==
  /\ audioQueue' = <<>>
  /\ nextStartTime' = clock
  /\ afterInterrupt' = "armed"

\* the suspended invocations, marked as received before an interruption
Stale(p) == [i \in 1..Len(p) |-> [p[i] EXCEPT !.stale = TRUE]]

\* handleMessage(m) up to the await of decodeAudioData, or to its end
HandleMessage(c, m) ==
  /\ session[c] = "open"
  /\ IF outputAudioContext = Null
     THEN /\ calls' = <<>>
          /\ UNCHANGED <<audioQueue, nextStartTime, afterInterrupt, pending>>
     ELSE CASE m.audio = "ok" ->
                 /\ Len(pending) < MaxPending
                 /\ pending' = Append(pending, [interrupted |-> m.interrupted,
                                                stale |-> FALSE, overtaken |-> FALSE])
                 /\ calls' = Transcripts(m) \o << <<"onAudioData">> >>
                 /\ UNCHANGED <<audioQueue, nextStartTime, afterInterrupt>>
            [] m.audio = "malformed" ->
                 \* the byte conversion throws: caught and logged, the rest is
                 \* skipped; the log entry tells whether m had interrupted set
                 /\ calls' = Transcripts(m) \o << <<"console.error", m.interrupted>> >>
                 /\ UNCHANGED <<audioQueue, nextStartTime, afterInterrupt, pending>>
            [] m.audio = "none" /\ m.interrupted ->
                 /\ calls' = Transcripts(m) \o StopAll(audioQueue) \o << <<"interrupted">> >>
                 /\ Interrupt(audioQueue)
                 /\ pending' = Stale(pending)
            [] OTHER ->
                 /\ calls' = Transcripts(m)
                 /\ UNCHANGED <<audioQueue, nextStartTime, afterInterrupt, pending>>
  /\ UNCHANGED <<inputAudioContext, outputAudioContext, stream, sessionPromise,
                 scriptProcessor, sourceNode, isConnected, envVars, conn, disc, hist, muteHist>>

Remove(q, i) == [j \in 1..(Len(q) - 1) |-> IF j < i THEN q[j] ELSE q[j + 1]]

\* decodeAudioData, awaited by handleMessage: the decode of the i-th suspended
\* invocation settles at some later time, whatever the other decodes do
decodeAudioData(i) == i \in 1..Len(pending)

\* the suspended invocations, those received before the i-th marked as overtaken
Overtake(p, i) ==
  [j \in 1..Len(p) |-> IF j < i THEN [p[j] EXCEPT !.overtaken = TRUE] ELSE p[j]]

\* decodeAudioData resolved with a buffer of duration dur: the rest of handleMessage
DecodeResolved(i, dur) ==
  /\ decodeAudioData(i)
  /\ pending' = IF outputAudioContext = Null THEN Remove(pending, i)
                ELSE IF pending[i].interrupted
                     THEN Stale(Remove(Overtake(pending, i), i))
                     ELSE Remove(Overtake(pending, i), i)
  /\ IF outputAudioContext = Null
     THEN \* this.outputAudioContext.currentTime throws: caught and logged
          /\ calls' = << <<"console.error", pending[i].interrupted>> >>
          /\ UNCHANGED <<audioQueue, nextStartTime, afterInterrupt>>
     ELSE LET start == StartTime(nextStartTime, clock)
              queued == Append(audioQueue, [start |-> start, dur |-> dur,
                                            stale |-> pending[i].stale,
                                            overtaken |-> pending[i].overtaken])
          IN /\ Len(audioQueue) < MaxQueue
             /\ Advance(start, dur) <= MaxCursor
             /\ IF pending[i].interrupted
                THEN /\ calls' = << <<"start", start>> >> \o StopAll(queued)
                                  \o << <<"interrupted">> >>
                     /\ Interrupt(queued)
                ELSE /\ calls' = << <<"start", start>> >>
                     /\ audioQueue' = queued
                     /\ nextStartTime' = Advance(start, dur)
                     /\ afterInterrupt' = IF afterInterrupt = "armed" THEN "scheduled"
                                          ELSE "no"
  /\ UNCHANGED <<inputAudioContext, outputAudioContext, stream, sessionPromise,
                 scriptProcessor, sourceNode, isConnected, envVars, conn, disc, hist, muteHist>>

\* what DecodeRejected must not be: the failure answered by a reset of playback
DecodeRejectedResets(i) ==
  /\ decodeAudioData(i)
  /\ pending' = Remove(pending, i)
  /\ calls' = StopAll(audioQueue) \o << <<"console.error", pending[i].interrupted>> >>
  /\ audioQueue' = <<>>
  /\ nextStartTime' = clock
  /\ UNCHANGED <<inputAudioContext, outputAudioContext, stream, sessionPromise,
                 scriptProcessor, sourceNode, isConnected, envVars, conn, disc,
                 hist, afterInterrupt, muteHist>>

\* decodeAudioData rejected: caught and logged, the rest of handleMessage is skipped
DecodeRejected(i) ==
  /\ decodeAudioData(i)
  /\ pending' = Remove(pending, i)
  /\ calls' = << <<"console.error", pending[i].interrupted>> >>
  /\ UNCHANGED <<clientVars, envVars, conn, disc, hist, afterInterrupt, muteHist>>

\* what SourceEnded must not be: the oldest tracked source dropped, whichever ended
SourceEndedShift(i) ==
  /\ i \in 1..Len(audioQueue)
  /\ clock >= audioQueue[i].start + audioQueue[i].dur
  /\ audioQueue' = Tail(audioQueue)
  /\ calls' = << <<"onended", audioQueue[i].start>> >>
  /\ UNCHANGED <<inputAudioContext, outputAudioContext, nextStartTime, stream,
                 sessionPromise, scriptProcessor, sourceNode, isConnected,
                 envVars, procVars, hist, afterInterrupt, muteHist>>

\* source.onended of the i-th tracked source: it has played to its end
SourceEnded(i) ==
  /\ i \in 1..Len(audioQueue)
  /\ clock >= audioQueue[i].start + audioQueue[i].dur
  /\ audioQueue' = Remove(audioQueue, i)
  /\ calls' = << <<"onended", audioQueue[i].start>> >>
  /\ UNCHANGED <<inputAudioContext, outputAudioContext, nextStartTime, stream,
                 sessionPromise, scriptProcessor, sourceNode, isConnected,
                 envVars, procVars, hist, afterInterrupt, muteHist>>

\* the output context's clock advances
Tick ==
  /\ clock < MaxClock
  /\ outputAudioContext # Null
  /\ clock' = clock + 1
  /\ calls' = <<>>
  /\ UNCHANGED <<clientVars, inCtx, outCtx, mic, trackEnabled, session, graph,
                 procVars, hist, afterInterrupt, muteHist>>

\* ------------------------------------------------------ LiveClient.setMute

\* what Enabled must not be: the flag taken as it is
EnabledSame(mute) == mute

\* the value setMute(mute) gives to track.enabled
Enabled(mute) == ~mute

\* muteHist: "muted" after setMute(true) on the current stream, "restored" after
\* a setMute(false) that follows it
\* what SetMute must not be: muting done by taking the capture graph apart
SetMuteUnwires(mute) ==
  /\ IF stream # Null
     THEN /\ trackEnabled' = [trackEnabled EXCEPT ![stream] = Enabled(mute)]
          /\ graph' = [g \in Conns |-> IF mute /\ graph[g] = "connected"
                                       THEN "disconnected" ELSE graph[g]]
          /\ muteHist' = IF mute THEN "muted"
                         ELSE IF muteHist = "muted" THEN "restored" ELSE "none"
     ELSE UNCHANGED <<trackEnabled, graph, muteHist>>
  /\ calls' = <<>>
  /\ UNCHANGED <<clientVars, inCtx, outCtx, mic, session, clock,
                 procVars, hist, afterInterrupt>>

SetMute(mute) ==
  /\ IF stream # Null
     THEN /\ trackEnabled' = [trackEnabled EXCEPT ![stream] = Enabled(mute)]
          /\ muteHist' = IF mute THEN "muted"
                         ELSE IF muteHist = "muted" THEN "restored" ELSE "none"
     ELSE UNCHANGED <<trackEnabled, muteHist>>
  /\ calls' = <<>>
  /\ UNCHANGED <<clientVars, inCtx, outCtx, mic, session, graph, clock,
                 procVars, hist, afterInterrupt>>

\* --------------------------------------------------- LiveClient.disconnect

\* "if (this.outputAudioContext && state !== 'closed') await close()" and the
\* end of disconnect(); h is the last call invoked
CloseOutput(d, h) ==
  IF outputAudioContext # Null /\ outCtx[outputAudioContext] # "closed"
  THEN /\ disc' = [disc EXCEPT ![d] = [pc |-> "closeOut", p |-> outputAudioContext,
                                       own |-> outCtx[outputAudioContext] = "open"]]
       /\ outCtx' = [outCtx EXCEPT ![outputAudioContext] = "closing"]
       /\ hist' = h
       /\ UNCHANGED <<outputAudioContext, isConnected>>
  ELSE /\ outputAudioContext' = Null
       /\ isConnected' = FALSE
       /\ disc' = [disc EXCEPT ![d] = [pc |-> "done", p |-> Null, own |-> FALSE]]
       /\ hist' = h
       /\ UNCHANGED outCtx

\* "if (this.inputAudioContext && state !== 'closed') await close()" and what follows
CloseInput(d, h) ==
  IF inputAudioContext # Null /\ inCtx[inputAudioContext] # "closed"
  THEN /\ disc' = [disc EXCEPT ![d] = [pc |-> "closeIn", p |-> inputAudioContext,
                                       own |-> inCtx[inputAudioContext] = "open"]]
       /\ inCtx' = [inCtx EXCEPT ![inputAudioContext] = "closing"]
       /\ hist' = h
       /\ UNCHANGED <<inputAudioContext, outputAudioContext, outCtx, isConnected>>
  ELSE /\ inputAudioContext' = Null
       /\ UNCHANGED inCtx
       /\ CloseOutput(d, h)

\* the history after a disconnect() call: was a connect() in flight when it was made
DisconnectCalled ==
  IF \E c \in Conns : conn[c] \notin {"idle", "resolved", "rejected"}
  THEN "disconnect during connect" ELSE "disconnect"

\* disconnect(), up to its first await
Disconnect(d) ==
  /\ disc[d].pc = "idle"
  /\ \A b \in Discs : b < d => disc[b].pc # "idle"
  /\ CallsMade < MaxCalls
  /\ calls' = StopAll(audioQueue)
  /\ audioQueue' = <<>>
  /\ graph' = [g \in Conns |-> IF g \in {sourceNode, scriptProcessor}
                               THEN "disconnected" ELSE graph[g]]
  /\ sourceNode' = Null
  /\ scriptProcessor' = Null
  /\ mic' = [s \in Conns |-> IF s = stream THEN "stopped" ELSE mic[s]]
  /\ stream' = Null
  /\ IF sessionPromise # Null
     THEN /\ disc' = [disc EXCEPT ![d] = [pc |-> "awaitSession", p |-> sessionPromise,
                                          own |-> FALSE]]
          /\ hist' = DisconnectCalled
          /\ UNCHANGED <<inputAudioContext, outputAudioContext, inCtx, outCtx, isConnected>>
     ELSE CloseInput(d, DisconnectCalled)
  /\ muteHist' = "none"
  /\ UNCHANGED <<nextStartTime, sessionPromise, trackEnabled, session, clock,
                 conn, pending, afterInterrupt>>

\* await this.sessionPromise settled in disconnect(): the session is closed, or
\* the rejection is swallowed.  connect() awaited the promise first, so its
\* continuation has run before this one.
DisconnectSessionSettled(d) ==
  /\ disc[d].pc = "awaitSession"
  /\ conn[disc[d].p] # "session"
  /\ \/ /\ SessionResolved(disc[d].p)
        /\ session' = [session EXCEPT ![disc[d].p] =
                         IF @ = "open" THEN "closing" ELSE @]
        /\ calls' = << <<"session.close", disc[d].p>> >>
     \/ /\ SessionRejected(disc[d].p)
        /\ calls' = <<>>
        /\ UNCHANGED session
  /\ sessionPromise' = Null
  /\ CloseInput(d, hist)
  /\ UNCHANGED <<nextStartTime, stream, scriptProcessor, sourceNode, audioQueue,
                 mic, trackEnabled, graph, clock, conn, pending, afterInterrupt, muteHist>>

\* await this.inputAudioContext.close() settled
DisconnectClosedInput(d) ==
  /\ disc[d].pc = "closeIn"
  /\ inputAudioContext' = Null
  /\ inCtx' = [inCtx EXCEPT ![disc[d].p] = IF disc[d].own THEN "closed" ELSE @]
  /\ CloseOutput(d, hist)
  /\ calls' = <<>>
  /\ UNCHANGED <<nextStartTime, stream, sessionPromise, scriptProcessor, sourceNode,
                 audioQueue, mic, trackEnabled, session, graph, clock,
                 conn, pending, afterInterrupt, muteHist>>

\* await this.outputAudioContext.close() settled: the end of disconnect()
DisconnectClosedOutput(d) ==
  /\ disc[d].pc = "closeOut"
  /\ outputAudioContext' = Null
  /\ outCtx' = [outCtx EXCEPT ![disc[d].p] = IF disc[d].own THEN "closed" ELSE @]
  /\ isConnected' = FALSE
  /\ disc' = [disc EXCEPT ![d] = [pc |-> "done", p |-> Null, own |-> FALSE]]
  /\ UNCHANGED hist
  /\ calls' = <<>>
  /\ UNCHANGED <<inputAudioContext, nextStartTime, stream, sessionPromise,
                 scriptProcessor, sourceNode, audioQueue, inCtx, mic, trackEnabled,
                 session, graph, clock, conn, pending, afterInterrupt, muteHist>>

\* --------------------------------------------------------------- ActiveCall

\* a step of ActiveCall that does not enter the client
ClientIdle ==
  /\ calls' = <<>>
  /\ UNCHANGED <<clientVars, envVars, procVars, hist, afterInterrupt, muteHist>>

\* a step of the client that does not enter ActiveCall
Alone == UNCHANGED <<appVars, rootVars>>

\* text.includes(marker)
Includes(text, marker) ==
  \E i \in 1..(Len(text) - Len(marker) + 1) :
    SubSeq(text, i, i + Len(marker) - 1) = marker

\* `${isUser ? 'You' : persona.name}: ${text}\n`
Line(text, isUser) == [speaker |-> IF isUser THEN "You" ELSE "persona", text |-> text]

\* what OnTranscript must not be: the hang-up scheduled with no delay
OnTranscriptNoDelay(a, text, isUser) ==
  IF ~isMountedRef THEN a
  ELSE [transcriptRef |-> Append(a.transcriptRef, Line(text, isUser)),
        timeouts |-> IF ~isUser /\ Includes(text, Marker)
                     THEN Append(a.timeouts, [delay |-> 0, age |-> 0])
                     ELSE a.timeouts]

\* what OnTranscript must not be: the marker looked for in the user's text too
OnTranscriptAnySpeaker(a, text, isUser) ==
  IF ~isMountedRef THEN a
  ELSE [transcriptRef |-> Append(a.transcriptRef, Line(text, isUser)),
        timeouts |-> IF Includes(text, Marker)
                     THEN Append(a.timeouts, [delay |-> EndCallDelay, age |-> 0])
                     ELSE a.timeouts]

\* what OnTranscript must not be: the new line put in front of the transcript
OnTranscriptNewestFirst(a, text, isUser) ==
  IF ~isMountedRef THEN a
  ELSE [transcriptRef |-> <<Line(text, isUser)>> \o a.transcriptRef,
        timeouts |-> IF ~isUser /\ Includes(text, Marker)
                     THEN Append(a.timeouts, [delay |-> EndCallDelay, age |-> 0])
                     ELSE a.timeouts]

\* the onTranscript callback given to the client; a holds transcriptRef and the
\* timeouts set so far
OnTranscript(a, text, isUser) ==
  IF ~isMountedRef THEN a
  ELSE [transcriptRef |-> Append(a.transcriptRef, Line(text, isUser)),
        timeouts |-> IF ~isUser /\ Includes(text, Marker)
                     THEN Append(a.timeouts, [delay |-> EndCallDelay, age |-> 0])
                     ELSE a.timeouts]

\* the callbacks of cs run in order
RECURSIVE Delivered(_, _)
Delivered(a, cs) ==
  IF cs = <<>> THEN a
  ELSE Delivered(IF Head(cs)[1] = "onTranscript"
                 THEN OnTranscript(a, Head(cs)[2], Head(cs)[3]) ELSE a,
                 Tail(cs))

\* ActiveCall's part of a step of the client that calls back into it
Deliver ==
  LET a == Delivered([transcriptRef |-> transcriptRef, timeouts |-> timeouts], calls')
  IN /\ Len(a.transcriptRef) <= MaxLines
     /\ Len(a.timeouts) <= MaxTimeouts
     /\ transcriptRef' = a.transcriptRef
     /\ timeouts' = a.timeouts
     /\ UNCHANGED <<status, errorMessage, duration, liveClientRef, timerRef, isMountedRef, client,
                    ignore, interval, startCall, hang, ended>>
     /\ UNCHANGED rootVars

\* the message of an error that has none
NoMessage == "undefined"

\* the messages of the errors connect() rejects with: none, empty, or a text
ErrMessages == {NoMessage, "", "Permission denied"}

\* the message of the error thrown when GEMINI_API_KEY is not set
KeyNotFound == "API Key not found"

\* what ErrorText must not be: the message of the error shown as it is
ErrorTextRaw(message) == message

\* err.message || "Connection failed"
ErrorText(message) ==
  IF message \in {NoMessage, ""} THEN "Connection failed" ELSE message

\* what StartCall must not be: the client made and connected whatever the key
StartCallNoKeyCheck(key) ==
  /\ startCall.pc = "idle"
  /\ client' = TRUE
  /\ liveClientRef' = TRUE
  /\ Connect(1)
  /\ startCall' = [startCall EXCEPT !.pc = "connecting",
                                     !.key = IF key THEN "set" ELSE "missing"]
  /\ UNCHANGED <<status, errorMessage, duration, timerRef, transcriptRef, isMountedRef, ignore,
                 interval, timeouts, hang, ended>>
  /\ UNCHANGED rootVars

\* the effect runs startCall(), up to "await client.connect()"; key: is
\* process.env.GEMINI_API_KEY set
StartCall(key) ==
  /\ startCall.pc = "idle"
  /\ IF key
     THEN /\ client' = TRUE
          /\ liveClientRef' = TRUE
          /\ Connect(1)
          /\ startCall' = [startCall EXCEPT !.pc = "connecting", !.key = "set"]
          /\ UNCHANGED <<status, errorMessage>>
     ELSE /\ status' = IF isMountedRef /\ ~ignore THEN "error" ELSE status
          /\ errorMessage' = IF isMountedRef /\ ~ignore THEN ErrorText(KeyNotFound)
                              ELSE errorMessage
          /\ startCall' = [startCall EXCEPT !.pc = "failed", !.key = "missing"]
          /\ ClientIdle
          /\ UNCHANGED <<client, liveClientRef>>
  /\ UNCHANGED <<duration, timerRef, transcriptRef, isMountedRef, ignore, interval,
                 timeouts, hang, ended>>
  /\ UNCHANGED rootVars

\* "await client.connect()" resolved in startCall()
StartCallConnected ==
  /\ startCall.pc = "connecting"
  /\ conn[1] = "resolved"
  /\ IF ignore
     THEN /\ \E d \in Discs :
               /\ Disconnect(d)
               /\ startCall' = [startCall EXCEPT !.pc = "disconnecting", !.d = d]
          /\ UNCHANGED <<status, timerRef, interval>>
     ELSE /\ ClientIdle
          /\ startCall' = [startCall EXCEPT !.pc = "done"]
          /\ IF isMountedRef
             THEN /\ status' = "connected"
                  /\ timerRef' = TRUE
                  /\ interval' = TRUE
             ELSE UNCHANGED <<status, timerRef, interval>>
  /\ UNCHANGED <<errorMessage, duration, liveClientRef, transcriptRef, isMountedRef, client, ignore,
                 timeouts, hang, ended>>
  /\ UNCHANGED rootVars

\* "await client.disconnect()" resolved in startCall()
StartCallDisconnected ==
  /\ startCall.pc = "disconnecting"
  /\ disc[startCall.d].pc = "done"
  /\ startCall' = [startCall EXCEPT !.pc = "done", !.d = Null]
  /\ ClientIdle
  /\ UNCHANGED <<status, errorMessage, duration, liveClientRef, timerRef, transcriptRef, isMountedRef,
                 client, ignore, interval, timeouts, hang, ended>>
  /\ UNCHANGED rootVars

\* "await client.connect()" rejected in startCall(): the catch block; the
\* error caught carries any of ErrMessages as its message
StartCallFailed ==
  /\ startCall.pc = "connecting"
  /\ conn[1] = "rejected"
  /\ status' = IF isMountedRef /\ ~ignore THEN "error" ELSE status
  /\ \E message \in ErrMessages :
       errorMessage' = IF isMountedRef /\ ~ignore THEN ErrorText(message)
                       ELSE errorMessage
  /\ startCall' = [startCall EXCEPT !.pc = "failed"]
  /\ ClientIdle
  /\ UNCHANGED <<duration, liveClientRef, timerRef, transcriptRef, isMountedRef,
                 client, ignore, interval, timeouts, hang, ended>>
  /\ UNCHANGED rootVars

\* what Unmount must not be: timerRef dropped without clearing its interval
UnmountKeepsTimer ==
  /\ startCall.pc # "idle"
  /\ isMountedRef
  /\ ignore' = TRUE
  /\ isMountedRef' = FALSE
  /\ timerRef' = FALSE
  /\ IF client THEN \E d \in Discs : Disconnect(d) ELSE ClientIdle
  /\ liveClientRef' = FALSE
  /\ UNCHANGED <<status, errorMessage, duration, transcriptRef, client, interval,
                 timeouts, startCall, hang, ended>>
  /\ UNCHANGED rootVars

\* the cleanup of the effect
Unmount ==
  /\ startCall.pc # "idle"
  /\ isMountedRef
  /\ ignore' = TRUE
  /\ isMountedRef' = FALSE
  /\ interval' = IF timerRef THEN FALSE ELSE interval
  /\ timerRef' = FALSE
  /\ IF client THEN \E d \in Discs : Disconnect(d) ELSE ClientIdle
  /\ liveClientRef' = FALSE
  /\ UNCHANGED <<status, errorMessage, duration, transcriptRef, client, timeouts, startCall,
                 hang, ended>>
  /\ UNCHANGED rootVars

\* handleHangUp(), up to "await liveClientRef.current.disconnect()" or to its
\* end; origin and age say who called it and how old the timeout was
HandleHangUp(h, origin, age) ==
  /\ hang[h].pc = "idle"
  /\ \A b \in HangUps : b < h => hang[b].pc # "idle"
  /\ IF liveClientRef
     THEN /\ \E d \in Discs :
               /\ Disconnect(d)
               /\ hang' = [hang EXCEPT ![h] = [pc |-> "disconnecting", d |-> d,
                                               origin |-> origin, age |-> age]]
          /\ UNCHANGED <<interval, ended>>
     ELSE /\ ClientIdle
          /\ interval' = IF timerRef THEN FALSE ELSE interval
          /\ ended' = Append(ended, transcriptRef)
          /\ hang' = [hang EXCEPT ![h] = [pc |-> "done", d |-> Null,
                                          origin |-> origin, age |-> age]]
  /\ UNCHANGED <<status, errorMessage, duration, liveClientRef, timerRef, transcriptRef,
                 isMountedRef, client, ignore, startCall>>
  /\ UNCHANGED rootVars

\* the hang-up button of the call screen
HangUpButton ==
  /\ startCall.pc # "idle"
  /\ isMountedRef
  /\ status # "error"
  /\ \E h \in HangUps : HandleHangUp(h, "button", 0)
  /\ UNCHANGED timeouts

\* a timeout set by onTranscript fires: it calls handleHangUp()
TimeoutFired(i) ==
  /\ i \in 1..Len(timeouts)
  /\ timeouts[i].age >= timeouts[i].delay
  /\ timeouts' = Remove(timeouts, i)
  /\ \E h \in HangUps : HandleHangUp(h, "timer", timeouts[i].age)

\* "await liveClientRef.current.disconnect()" settled in handleHangUp(): the
\* interval is cleared and onEndCall(transcriptRef.current) is called
HandleHangUpResumed(h) ==
  /\ hang[h].pc = "disconnecting"
  /\ disc[hang[h].d].pc = "done"
  /\ interval' = IF timerRef THEN FALSE ELSE interval
  /\ ended' = Append(ended, transcriptRef)
  /\ hang' = [hang EXCEPT ![h].pc = "done"]
  /\ ClientIdle
  /\ UNCHANGED <<status, errorMessage, duration, liveClientRef, timerRef, transcriptRef,
                 isMountedRef, client, ignore, timeouts, startCall>>

\* the same under a caller whose onEndCall is left out
HangUpDisconnected(h) ==
  /\ HandleHangUpResumed(h)
  /\ UNCHANGED rootVars

\* one second passes: the timeouts age, the duration interval fires
Second ==
  /\ interval \/ \E i \in 1..Len(timeouts) : timeouts[i].age < EndCallDelay
  /\ (interval /\ isMountedRef) => duration < MaxDuration
  /\ timeouts' = [i \in 1..Len(timeouts) |->
                    [timeouts[i] EXCEPT !.age = IF @ < EndCallDelay THEN @ + 1 ELSE @]]
  /\ duration' = IF interval /\ isMountedRef THEN duration + 1 ELSE duration
  /\ ClientIdle
  /\ UNCHANGED <<status, errorMessage, liveClientRef, timerRef, transcriptRef, isMountedRef,
                 client, ignore, interval, startCall, hang, ended>>
  /\ UNCHANGED rootVars

\* ---------------------------------------------------- gradeCall and App

\* what ai.models.generateContent answers: it rejects, or it resolves with a
\* response whose text is absent, is no JSON, is the JSON null, or is a JSON
\* object with or without the fields score and summary
Scores == {0, 73, 150}
Summaries == {"", "good call"}
Objects ==
  {o \in [hasScore : BOOLEAN, score : Scores, hasSummary : BOOLEAN, summary : Summaries] :
     (~o.hasScore => o.score = 0) /\ (~o.hasSummary => o.summary = "")}
Replies ==
  {[kind |-> "rejected"], [kind |-> "no text"], [kind |-> "no json"], [kind |-> "null"]}
    \cup {[kind |-> "object", value |-> o] : o \in Objects}

\* the value of the catch block of gradeCall
Fallback ==
  [outcome |-> "resolved", score |-> 50,
   summary |-> "Error grading call. Please try again.", rubric |-> "System Error"]

\* result.score || d and result.summary || d; has: is the field there
OrNumber(has, a, d) == IF ~has \/ a = 0 THEN d ELSE a
OrString(has, a, d) == IF ~has \/ a = "" THEN d ELSE a

GradeCallNoCatch(key, reply) ==
  IF ~key \/ reply.kind \in {"rejected", "no json", "null"}
  THEN [outcome |-> "rejected"]
  ELSE IF reply.kind = "no text"
  THEN [outcome |-> "resolved", score |-> 0, summary |-> "No summary available.",
        rubric |-> "none"]
  ELSE [outcome |-> "resolved", score |-> OrNumber(reply.value.hasScore, reply.value.score, 0),
        summary |-> OrString(reply.value.hasSummary, reply.value.summary,
                             "No summary available."),
        rubric |-> "given"]

\* gradeCall; key: is process.env.GEMINI_API_KEY set
GradeCall(key, reply) ==
  IF ~key THEN Fallback                      \* throw new Error("Missing API Key")
  ELSE IF reply.kind = "rejected" THEN Fallback   \* await generateContent rejects
  ELSE IF reply.kind = "no json" THEN Fallback    \* JSON.parse throws
  ELSE IF reply.kind = "null" THEN Fallback       \* result.score of null throws
  ELSE IF reply.kind = "no text"                  \* JSON.parse('{}')
  THEN [outcome |-> "resolved", score |-> 0, summary |-> "No summary available.",
        rubric |-> "none"]
  ELSE [outcome |-> "resolved", score |-> OrNumber(reply.value.hasScore, reply.value.score, 0),
        summary |-> OrString(reply.value.hasSummary, reply.value.summary,
                             "No summary available."),
        rubric |-> "given"]

\* the request did not give a grading: no key, a rejection, an unparsable text
Failed(key, reply) == ~key \/ reply.kind \in {"rejected", "no json", "null"}

\* handleEndCall(transcript), up to "await gradeCall(...)"
HandleEndCall(transcript) ==
  /\ Len(grading) + Len(sessions) < MaxGradings
  /\ isProcessing' = TRUE
  /\ grading' = Append(grading, [transcript |-> transcript, sessions |-> sessions])
  /\ UNCHANGED <<appState, sessions, graded>>

\* "await gradeCall(...)" settled in the i-th handleEndCall in flight: the
\* Call Session Record is built and saved
GradeCallSettled(i, key, reply) ==
  LET g == GradeCall(key, reply)
  IN /\ i \in 1..Len(grading)
     /\ grading' = Remove(grading, i)
     /\ graded' = [made |-> TRUE, key |-> key, reply |-> reply, result |-> g]
     /\ IF g.outcome = "resolved"
        THEN /\ sessions' = << [durationSeconds |-> 0,
                                transcript |-> grading[i].transcript,
                                overallScore |-> g.score,
                                rubric |-> g.rubric,
                                summary |-> g.summary] >> \o grading[i].sessions
             /\ isProcessing' = FALSE
             /\ appState' = "FEEDBACK"
        ELSE UNCHANGED <<sessions, isProcessing, appState>>

\* the same continuation when localStorage.setItem throws (the quota is
\* exceeded, storage is refused): setSessions has been called, the rest of
\* handleEndCall is not run and its promise rejects
GradeCallSettledSaveThrows(i, key, reply) ==
  LET g == GradeCall(key, reply)
  IN /\ i \in 1..Len(grading)
     /\ grading' = Remove(grading, i)
     /\ graded' = [made |-> TRUE, key |-> key, reply |-> reply, result |-> g]
     /\ sessions' = << [durationSeconds |-> 0,
                        transcript |-> grading[i].transcript,
                        overallScore |-> g.score,
                        rubric |-> g.rubric,
                        summary |-> g.summary] >> \o grading[i].sessions
     /\ UNCHANGED <<isProcessing, appState>>

\* ------------------------------------------------------ the specifications

\* Spec: the lifecycle of one LiveClient under any caller.  Its messages are
\* a transcript and an audio chunk; the output clock stands still.
LifecycleMessages ==
  {m \in Messages : /\ m.inTr = NoText
                    /\ ~m.interrupted
                    /\ m.outTr \in {NoText, Plain}
                    /\ (m.outTr = NoText) = (m.audio = "ok")
                    /\ m.audio # "malformed"}

Next ==
  \/ \E c \in Conns : Connect(c) /\ Alone
  \/ \E c \in Conns : ConnectResumedInput(c) /\ Alone
  \/ \E c \in Conns : ConnectResumedOutput(c) /\ Alone
  \/ \E c \in Conns : ConnectResumeRejected(c) /\ Alone
  \/ \E c \in Conns : ConnectGotStream(c) /\ Alone
  \/ \E c \in Conns : ConnectMicDenied(c) /\ Alone
  \/ \E c \in Conns : ConnectSessionSettled(c) /\ Alone
  \/ \E c \in Conns : SessionOpened(c) /\ Alone
  \/ \E c \in Conns : SessionRefused(c) /\ Alone
  \/ \E c \in Conns : SessionClosed(c) /\ Alone
  \/ \E c \in Conns : SessionError(c) /\ Alone
  \/ \E g \in Conns : AudioProcess(g, TRUE) /\ Alone
  \/ \E c \in Conns, m \in LifecycleMessages : HandleMessage(c, m) /\ Alone
  \/ \E i \in 1..MaxPending : DecodeResolved(i, 1) /\ Alone
  \/ \E d \in Discs : Disconnect(d) /\ Alone
  \/ \E d \in Discs : DisconnectSessionSettled(d) /\ Alone
  \/ \E d \in Discs : DisconnectClosedInput(d) /\ Alone
  \/ \E d \in Discs : DisconnectClosedOutput(d) /\ Alone

Spec == Init /\ [][Next]_vars

\* PlaybackSpec: one call that connects, then any inbound messages, decodes in
\* any order, buffers ending and the output clock advancing.
PlaybackMessages == {m \in Messages : m.inTr = NoText /\ m.outTr = NoText}

PlaybackNext ==
  \/ Connect(1) /\ Alone
  \/ ConnectResumedInput(1) /\ Alone
  \/ ConnectResumedOutput(1) /\ Alone
  \/ ConnectGotStream(1) /\ Alone
  \/ SessionOpened(1) /\ Alone
  \/ ConnectSessionSettled(1) /\ Alone
  \/ \E m \in PlaybackMessages : HandleMessage(1, m) /\ Alone
  \/ \E i \in 1..MaxPending, dur \in Durations : DecodeResolved(i, dur) /\ Alone
  \/ \E i \in 1..MaxPending : DecodeRejected(i) /\ Alone
  \/ \E i \in 1..MaxQueue : SourceEnded(i) /\ Alone
  \/ Tick /\ Alone

PlaybackSpec == Init /\ [][PlaybackNext]_vars

\* FairSpec: one connect() and the disconnect() calls made during or after it,
\* where every pending operation of the browser and of the remote endpoint
\* settles and every continuation of the client runs.
FairStep ==
  \/ ConnectResumedInput(1) /\ Alone
  \/ ConnectResumedOutput(1) /\ Alone
  \/ ConnectResumeRejected(1) /\ Alone
  \/ ConnectGotStream(1) /\ Alone
  \/ ConnectMicDenied(1) /\ Alone
  \/ ConnectSessionSettled(1) /\ Alone
  \/ SessionOpened(1) /\ Alone
  \/ SessionRefused(1) /\ Alone
  \/ \E d \in Discs : DisconnectSessionSettled(d) /\ Alone
  \/ \E d \in Discs : DisconnectClosedInput(d) /\ Alone
  \/ \E d \in Discs : DisconnectClosedOutput(d) /\ Alone

FairNext ==
  \/ Connect(1) /\ Alone
  \/ \E d \in Discs : conn[1] # "idle" /\ Disconnect(d) /\ Alone
  \/ FairStep

FairSpec == Init /\ [][FairNext]_vars /\ WF_vars(FairStep)

\* MuteSpec: one connect(), setMute() called at any moment, captured frames
\* sent or failing to be sent, audio chunks received and scheduled, and the
\* disconnect() calls made during or after the connect().
CaptureMessages ==
  {m \in Messages : /\ m.inTr = NoText /\ m.outTr = NoText
                    /\ m.audio = "ok" /\ ~m.interrupted}

MuteNext ==
  \/ Connect(1) /\ Alone
  \/ ConnectResumedInput(1) /\ Alone
  \/ ConnectResumedOutput(1) /\ Alone
  \/ ConnectResumeRejected(1) /\ Alone
  \/ ConnectGotStream(1) /\ Alone
  \/ ConnectMicDenied(1) /\ Alone
  \/ ConnectSessionSettled(1) /\ Alone
  \/ SessionOpened(1) /\ Alone
  \/ SessionRefused(1) /\ Alone
  \/ \E mute \in BOOLEAN : SetMute(mute) /\ Alone
  \/ \E loud \in BOOLEAN : AudioProcess(1, loud) /\ Alone
  \/ \E loud \in BOOLEAN : AudioProcessSendFailed(1, loud) /\ Alone
  \/ \E m \in CaptureMessages : HandleMessage(1, m) /\ Alone
  \/ DecodeResolved(1, 1) /\ Alone
  \/ \E d \in Discs : conn[1] # "idle" /\ Disconnect(d) /\ Alone
  \/ \E d \in Discs : DisconnectSessionSettled(d) /\ Alone
  \/ \E d \in Discs : DisconnectClosedInput(d) /\ Alone
  \/ \E d \in Discs : DisconnectClosedOutput(d) /\ Alone

MuteSpec == Init /\ [][MuteNext]_vars

\* CallSpec: one ActiveCall from mount to unmount, with the client it creates.
\* The inbound messages carry transcripts only.
CallMessages ==
  {m \in Messages : /\ m.audio = "none"
                    /\ ~m.interrupted
                    /\ m.inTr \in {NoText, <<"x", "[[END_", "CALL]]">>}
                    /\ m.outTr \in {NoText, Plain, <<"x", "[[END_", "CALL]]">>}
                    /\ (m.inTr # NoText \/ m.outTr # NoText)}

CallNext ==
  \/ \E key \in BOOLEAN : StartCall(key)
  \/ ConnectResumedInput(1) /\ Alone
  \/ ConnectResumedOutput(1) /\ Alone
  \/ ConnectResumeRejected(1) /\ Alone
  \/ ConnectGotStream(1) /\ Alone
  \/ ConnectMicDenied(1) /\ Alone
  \/ ConnectSessionSettled(1) /\ Alone
  \/ SessionOpened(1) /\ Alone
  \/ SessionRefused(1) /\ Alone
  \/ SessionClosed(1) /\ Alone
  \/ \E m \in CallMessages : HandleMessage(1, m) /\ Deliver
  \/ \E d \in Discs : DisconnectSessionSettled(d) /\ Alone
  \/ \E d \in Discs : DisconnectClosedInput(d) /\ Alone
  \/ \E d \in Discs : DisconnectClosedOutput(d) /\ Alone
  \/ StartCallConnected
  \/ StartCallDisconnected
  \/ StartCallFailed
  \/ Unmount
  \/ HangUpButton
  \/ \E i \in 1..MaxTimeouts : TimeoutFired(i)
  \/ \E h \in HangUps : HangUpDisconnected(h)
  \/ Second

CallSpec == Init /\ [][CallNext]_vars

\* GradeSpec: the transcripts handed to App at the end of a call, each graded
\* with any answer of the grading request.
HandedOff == {<<>>, <<Line(Plain, TRUE)>>}

GradeNext ==
  \/ \E t \in HandedOff :
       HandleEndCall(t) /\ ClientIdle /\ UNCHANGED appVars
  \/ \E i \in 1..MaxGradings, key \in BOOLEAN, reply \in Replies :
       GradeCallSettled(i, key, reply) /\ ClientIdle /\ UNCHANGED appVars

GradeSpec == Init /\ [][GradeNext]_vars

\* RecordSpec: one call of App from the mount of ActiveCall to the saved
\* record: the call connects, seconds pass, the user hangs up, onEndCall is
\* App's handleEndCall and the grading request is answered in any way.
RecordNext ==
  \/ StartCall(TRUE)
  \/ ConnectResumedInput(1) /\ Alone
  \/ ConnectResumedOutput(1) /\ Alone
  \/ ConnectGotStream(1) /\ Alone
  \/ SessionOpened(1) /\ Alone
  \/ ConnectSessionSettled(1) /\ Alone
  \/ StartCallConnected
  \/ Second
  \/ HangUpButton
  \/ \E d \in Discs : DisconnectSessionSettled(d) /\ Alone
  \/ \E d \in Discs : DisconnectClosedInput(d) /\ Alone
  \/ \E d \in Discs : DisconnectClosedOutput(d) /\ Alone
  \/ \E h \in HangUps : HandleHangUpResumed(h) /\ HandleEndCall(transcriptRef)
  \/ \E i \in 1..MaxGradings, key \in BOOLEAN, reply \in Replies :
       GradeCallSettled(i, key, reply) /\ ClientIdle /\ UNCHANGED appVars

RecordSpec == Init /\ [][RecordNext]_vars

\* MarkerSpec: one call that connects and stays mounted; the persona's output
\* arrives as transcript events that hold the end-of-call marker whole or one
\* half of it; time passes, the timeouts fire and the hang-up they start runs
\* to its end.
MarkerMessages ==
  {m \in Messages : /\ m.audio = "none"
                    /\ ~m.interrupted
                    /\ m.inTr = NoText
                    /\ m.outTr \in Texts \ {Plain}}

MarkerStep ==
  \/ ConnectSessionSettled(1) /\ Alone
  \/ StartCallConnected
  \/ Second
  \/ \E i \in 1..MaxTimeouts : TimeoutFired(i)
  \/ \E d \in Discs : DisconnectSessionSettled(d) /\ Alone
  \/ \E d \in Discs : DisconnectClosedInput(d) /\ Alone
  \/ \E d \in Discs : DisconnectClosedOutput(d) /\ Alone
  \/ \E h \in HangUps : HangUpDisconnected(h)

MarkerNext ==
  \/ StartCall(TRUE)
  \/ ConnectResumedInput(1) /\ Alone
  \/ ConnectResumedOutput(1) /\ Alone
  \/ ConnectGotStream(1) /\ Alone
  \/ SessionOpened(1) /\ Alone
  \/ \E m \in MarkerMessages : HandleMessage(1, m) /\ Deliver
  \/ MarkerStep

MarkerSpec == Init /\ [][MarkerNext]_vars /\ WF_vars(MarkerStep)

\* ProcessingSpec: the calls handed to App's handleEndCall; every grading
\* request settles, in any way, and the continuation of handleEndCall runs,
\* the saving of the sessions succeeding or throwing.
ProcessingStep ==
  \/ \E i \in 1..MaxGradings, key \in BOOLEAN, reply \in Replies :
       GradeCallSettled(i, key, reply) /\ ClientIdle /\ UNCHANGED appVars
  \/ \E i \in 1..MaxGradings, key \in BOOLEAN, reply \in Replies :
       GradeCallSettledSaveThrows(i, key, reply) /\ ClientIdle /\ UNCHANGED appVars

ProcessingNext ==
  \/ \E t \in HandedOff :
       HandleEndCall(t) /\ ClientIdle /\ UNCHANGED appVars
  \/ ProcessingStep

ProcessingSpec == Init /\ [][ProcessingNext]_vars /\ WF_vars(ProcessingStep)

\* ------------------------------------------------------------- the claims

ConnectsSettled == \A c \in Conns : conn[c] \in {"idle", "resolved", "rejected"}
DisconnectsSettled == \A d \in Discs : disc[d].pc \in {"idle", "done"}

\* nothing acquired from the browser or the remote endpoint is still held
Released ==
  \A c \in Conns : /\ mic[c] # "live"
                   /\ inCtx[c] # "open"
                   /\ outCtx[c] # "open"
                   /\ session[c] \notin {"opening", "open"}

\* what connect() number c acquired is released
ReleasedBy(c) ==
  /\ mic[c] # "live"
  /\ inCtx[c] # "open"
  /\ outCtx[c] # "open"
  /\ session[c] \notin {"opening", "open"}

InboundCallback(cs) ==
  \E i \in 1..Len(cs) : cs[i][1] \in {"onTranscript", "onAudioData"}

\* the last call made is a disconnect()
DisconnectLast == hist \in {"disconnect", "disconnect during connect"}

\* connect() was called once, the last call made is a disconnect(), and every
\* call has settled
SettledAfterDisconnect ==
  /\ conn[1] # "idle"
  /\ \A c \in Conns : c > 1 => conn[c] = "idle"
  /\ DisconnectLast
  /\ ConnectsSettled
  /\ DisconnectsSettled

\* C1: once connect() and a disconnect() invoked after it have both settled, no
\* microphone stream is live, no audio context and no remote session is open,
\* and no onTranscript/onAudioData callback fires afterwards.
C1_DisconnectDuringConnectReleasesAll ==
  [][ /\ SettledAfterDisconnect' => Released'
      /\ SettledAfterDisconnect => ~InboundCallback(calls') ]_vars

\* C2: when connect() rejects because the microphone request or the opening of
\* the remote session was rejected, everything that connect() acquired has been
\* released at the moment it rejects.
C2_FailedConnectReleasesAll ==
  [][ \A c \in Conns :
        (conn[c] \in {"gum", "session"} /\ conn'[c] = "rejected")
          => ReleasedBy(c)' ]_vars

\* every branch of disconnect() would be skipped: a call changes no field
DisconnectNoop ==
  /\ audioQueue = <<>>
  /\ sourceNode = Null
  /\ scriptProcessor = Null
  /\ stream = Null
  /\ sessionPromise = Null
  /\ inputAudioContext = Null
  /\ outputAudioContext = Null
  /\ ~isConnected

\* C3: disconnect() never rejects, and once the last call made is a disconnect()
\* that has completed, calling disconnect() again changes no state.
C3_DisconnectIdempotent ==
  /\ \A d \in Discs : disc[d].pc # "rejected"
  /\ (DisconnectLast /\ DisconnectsSettled) => DisconnectNoop

\* C4: every disconnect() that was invoked eventually completes, with all
\* resources released.
C4_DisconnectTerminatesReleased ==
  \A d \in Discs :
    (disc[d].pc \notin {"idle", "done"}) ~> (disc[d].pc = "done" /\ Released)

Interrupted(cs) == \E i \in 1..Len(cs) : cs[i] = <<"interrupted">>

C6_CursorMonotoneExceptInterruption ==
  [][ nextStartTime' < nextStartTime =>
        (Interrupted(calls') /\ nextStartTime' = clock) ]_vars

\* an interruption stopped a buffer that started at or after the clock: the
\* cursor was beyond the clock and was lowered to it
C6_CursorLoweredByInterruption ==
  /\ Interrupted(calls)
  /\ nextStartTime = clock
  /\ \E i \in 1..Len(calls) : calls[i][1] = "stop" /\ calls[i][2] >= clock

\* C7: the buffers scheduled for playback never overlap: each starts at or
\* after the start of the one scheduled before it plus that one's duration.
C7_ScheduledBuffersNeverOverlap ==
  \A i, j \in 1..Len(audioQueue) :
    i < j => audioQueue[j].start >= audioQueue[i].start + audioQueue[i].dur

\* two buffers in flight, back to back, the second scheduled after the clock moved
C7_TwoBuffersBackToBack ==
  /\ Len(audioQueue) = 2
  /\ audioQueue[1].start > 0
  /\ audioQueue[2].start = audioQueue[1].start + audioQueue[1].dur

\* C8: after a disconnect() of a connected client has completed, and until
\* connect() is called again, the in-flight playback set is empty.
C8_QueueEmptyAfterDisconnect ==
  (hist = "disconnect" /\ DisconnectsSettled) => audioQueue = <<>>

Acquires(cs) == \E i \in 1..Len(cs) : cs[i][1] \in {"getUserMedia", "live.connect"}

\* C9: setMute(true) and then setMute(false) on a stream leave its tracks
\* enabled, and neither call requests the microphone, rebuilds the capture
\* graph or touches the session.
C9_MuteUnmuteRestoresTracks ==
  [][ ((muteHist # "muted" /\ muteHist' = "muted")
         \/ (muteHist = "muted" /\ muteHist' = "restored")) =>
        /\ stream # Null
        /\ stream' = stream
        /\ muteHist' = "restored" => trackEnabled'[stream]
        /\ ~Acquires(calls')
        /\ UNCHANGED <<mic, graph, sourceNode, scriptProcessor, session,
                       sessionPromise, conn, inputAudioContext>> ]_vars

\* the microphone of a connected client was muted and unmuted again
C9_MutedAndRestored ==
  /\ muteHist = "restored"
  /\ stream # Null
  /\ mic[stream] = "live"
  /\ graph[stream] = "connected"
  /\ trackEnabled[stream]

PersonaMarker(cs) ==
  \E i \in 1..Len(cs) :
    cs[i][1] = "onTranscript" /\ ~cs[i][3] /\ Includes(cs[i][2], Marker)

\* C10: a handleHangUp() started by the end-of-call marker starts EndCallDelay
\* seconds or more after the marker was seen, never in the step that delivers
\* the transcript; and a timeout is set only by a persona transcript that
\* contains the marker.
C10_MarkerHangUpAfterDelay ==
  [][ /\ \A h \in HangUps :
           (hang[h].pc = "idle" /\ hang'[h].origin = "timer")
             => hang'[h].age >= EndCallDelay
      /\ (\E i \in 1..Len(calls') : calls'[i][1] = "onTranscript")
           => (hang' = hang /\ ended' = ended)
      /\ Len(timeouts') > Len(timeouts) => PersonaMarker(calls') ]_vars

\* the marker was seen in a persona line and its timeout has called handleHangUp()
C10_MarkerHangUpStarted ==
  /\ \E h \in HangUps : hang[h].origin = "timer"
  /\ \E i \in 1..Len(transcriptRef) :
       transcriptRef[i].speaker = "persona" /\ Includes(transcriptRef[i].text, Marker)

\* C11: when the grading request fails (no key, a rejection, an unparsable
\* response) gradeCall resolves with a score in 0..100 and a non-empty summary,
\* and the Call Session Record is built from that result.
C11_FailedGradingStillGivesRecord ==
  (graded.made /\ Failed(graded.key, graded.reply)) =>
    /\ graded.result.outcome = "resolved"
    /\ graded.result.score \in 0..100
    /\ graded.result.summary # ""
    /\ sessions # <<>>
    /\ sessions[1].overallScore = graded.result.score
    /\ sessions[1].summary = graded.result.summary

\* a grading request with a key was rejected and a record was saved
C11_RecordAfterRejectedGrading ==
  /\ graded.made
  /\ graded.key
  /\ graded.reply.kind = "rejected"
  /\ Len(sessions) = 1
  /\ grading = <<>>

\* C12: onEndCall is invoked at most once per call, whatever the hang-up
\* button, the end-of-call markers and their timeouts do.
C12_AtMostOneHandOff == Len(ended) <= 1

\* C13: once ActiveCall is unmounted no step changes its state, appends a
\* transcript line or invokes onEndCall.
C13_NothingActsAfterUnmount ==
  [][ ~isMountedRef =>
        UNCHANGED <<status, duration, transcriptRef, ended>> ]_vars

\* C14: with no API key the call fails before anything is acquired: no
\* LiveClient, no audio context, no microphone request, no remote session, no
\* connect() and no disconnect(); the error is shown and startCall is over.
C14_NoKeyAcquiresNothing ==
  startCall.key = "missing" =>
    /\ startCall.pc = "failed"
    /\ status = "error"
    /\ ~client /\ ~liveClientRef
    /\ \A c \in Conns : /\ conn[c] = "idle"
                        /\ inCtx[c] = "none" /\ outCtx[c] = "none"
                        /\ mic[c] = "none" /\ session[c] = "none"
    /\ \A d \in Discs : disc[d].pc = "idle"

\* the call failed for want of a key and the error screen was left
C14_NoKeyThenUnmounted ==
  /\ startCall.key = "missing"
  /\ status = "error"
  /\ ~isMountedRef

\* C15: over any sequence of connect() calls at most one remote session and
\* one microphone stream are open at any time, and connect() on a connected
\* client acquires nothing and changes no field.
C15_AtMostOneSessionAndStream ==
  [][ /\ Cardinality({c \in Conns : session'[c] \in {"opening", "open"}}) <= 1
      /\ Cardinality({c \in Conns : mic'[c] = "live"}) <= 1
      /\ (isConnected /\ \E c \in Conns : conn[c] = "idle" /\ conn'[c] # "idle")
           => (calls' = <<>> /\ UNCHANGED <<clientVars, envVars>>) ]_vars

OnClose(cs) == \E i \in 1..Len(cs) : cs[i] = <<"onClose">>

\* C16: when a session closes or fails the client calls onClose, and a remote
\* session comes into being only in a step of an explicit connect() call.
C16_CloseForwardedNoReconnect ==
  [][ \A c \in Conns :
        /\ (session[c] \in {"open", "closing"} /\ session'[c] \in {"errored", "closed"})
             => OnClose(calls')
        /\ (session[c] = "none" /\ session'[c] # "none")
             => (conn[c] = "gum" /\ conn'[c] = "session")
        /\ (session[c] \in {"errored", "closed"} /\ session'[c] # session[c])
             => session'[c] = "closed" ]_vars

\* the first session was closed by the remote endpoint, no disconnect() was
\* called, and a second connect() has opened a second session
C16_ReconnectedByCaller ==
  /\ session[1] = "closed"
  /\ \A d \in Discs : disc[d].pc = "idle"
  /\ session[2] = "open"

Called(cs, names) == \E i \in 1..Len(cs) : cs[i][1] \in names

\* C17: after a disconnect() invoked while connect() was in flight, and until
\* the next call, the connect attempt wires nothing up: no capture graph is
\* created, no frame is sent, no inbound message reaches onTranscript or
\* onAudioData and none is scheduled for playback.
C17_InFlightConnectWiresNothing ==
  [][ hist = "disconnect during connect" =>
        /\ \A g \in Conns : graph'[g] = "connected" => graph[g] = "connected"
        /\ ~Called(calls', {"sendRealtimeInput", "onTranscript", "onAudioData", "start"})
    ]_vars

\* C18: a chunk received before an interruption, its decode still pending
\* when the interruption is handled, is never added to the in-flight set.
C18_InterruptionDropsPendingDecodes ==
  \A i \in 1..Len(audioQueue) : ~audioQueue[i].stale

\* C19: inbound messages take effect in arrival order: the transcripts of a
\* message are forwarded while it is handled, and no audio chunk is scheduled
\* after a chunk that was received later than it.
C19_EffectsInArrivalOrder ==
  \A i \in 1..Len(audioQueue) : ~audioQueue[i].overtaken

\* C20: when a decoded buffer is scheduled, it starts at the cursor, or at the
\* output clock if the cursor had fallen behind it, so never before the clock
\* and right at the cursor when the cursor is at or ahead of the clock; the
\* cursor is then the start plus exactly the buffer's duration.
C20_BufferStartsAtCursorAndAdvancesIt ==
  [][ (Called(calls', {"start"}) /\ ~Interrupted(calls')) =>
        LET b == audioQueue'[Len(audioQueue')]
        IN /\ audioQueue' = Append(audioQueue, b)
           /\ calls' = << <<"start", b.start>> >>
           /\ b.start = IF nextStartTime < clock THEN clock ELSE nextStartTime
           /\ b.start >= clock
           /\ nextStartTime' = b.start + b.dur ]_vars

\* a buffer was scheduled when the cursor had fallen behind the clock: the one
\* before it had ended, it starts at the clock and the cursor is its end
C20_ScheduledAtClockAfterUnderrun ==
  /\ afterInterrupt = "no"
  /\ clock > 1
  /\ Len(audioQueue) = 1
  /\ audioQueue[1].start = clock
  /\ calls = << <<"start", clock>> >>
  /\ nextStartTime = clock + audioQueue[1].dur

\* C21: audioQueue changes in three ways only: a buffer that is scheduled is
\* appended to it, a buffer that has played to its end is removed from it and
\* the others stay, and a forced stop empties it after stopping every buffer
\* in it; a scheduled buffer is in it unless the same message interrupts.
C21_QueueHoldsScheduledUnfinished ==
  [][ /\ (Called(calls', {"start"}) /\ ~Interrupted(calls')) =>
            \E b \in {audioQueue'[Len(audioQueue')]} :
               /\ audioQueue' = Append(audioQueue, b)
               /\ calls' = << <<"start", b.start>> >>
      /\ (audioQueue' # audioQueue /\ ~Called(calls', {"start"})) =>
            \/ /\ audioQueue' = <<>>
               /\ \A i \in 1..Len(audioQueue) :
                     \E k \in 1..Len(calls') : calls'[k] = <<"stop", audioQueue[i].start>>
            \/ \E i \in 1..Len(audioQueue) :
                  /\ calls' = << <<"onended", audioQueue[i].start>> >>
                  /\ clock >= audioQueue[i].start + audioQueue[i].dur
                  /\ audioQueue' = Remove(audioQueue, i)
    ]_vars

\* the second of two tracked buffers ended while the first, scheduled before it
\* and played out too, is still tracked
C21_LaterBufferEndedFirst ==
  /\ Len(audioQueue) = 1
  /\ Len(calls) = 1
  /\ calls[1][1] = "onended"
  /\ calls[1][2] > audioQueue[1].start

\* C22: a captured frame whose send fails changes nothing of the client or of
\* the session (isConnected, the cursor, audioQueue, the capture graph, the
\* session promise) and reaches no caller: onClose is not invoked, and the
\* capture graph that sends the later frames stays connected.
C22_FailedSendIsSkipped ==
  [][ Called(calls', {"console.debug"}) =>
        /\ ~Called(calls', {"onClose"})
        /\ UNCHANGED <<isConnected, nextStartTime, audioQueue, sessionPromise,
                       stream, scriptProcessor, sourceNode, session, graph,
                       pending, conn, disc>> ]_vars

\* a send failed on a connected client with a buffer in flight: the session is
\* still open and the capture graph still connected
C22_SendFailedWhileConnected ==
  /\ Called(calls, {"console.debug"})
  /\ isConnected
  /\ sessionPromise # Null
  /\ session[sessionPromise] = "open"
  /\ \E g \in Conns : graph[g] = "connected"
  /\ Len(audioQueue) > 0
  /\ nextStartTime > clock

\* C23: a message whose audio payload fails to decode (the byte conversion
\* throws or decodeAudioData rejects) leaves the cursor and audioQueue as they
\* were, starts and stops nothing, reaches no caller through onClose, and
\* leaves the client connected with its session and output context as before.
C23_FailedDecodeDropsOnlyTheChunk ==
  [][ Called(calls', {"console.error"}) =>
        /\ ~Called(calls', {"onClose", "start", "stop"})
        /\ UNCHANGED <<nextStartTime, audioQueue, isConnected, session,
                       sessionPromise, outputAudioContext, outCtx>> ]_vars

\* a decode failed while a buffer was in flight on a connected client
C23_DecodeFailedWhilePlaying ==
  /\ Called(calls, {"console.error"})
  /\ outputAudioContext # Null
  /\ isConnected
  /\ session[1] = "open"
  /\ Len(audioQueue) > 0
  /\ nextStartTime > clock

\* C24: a message with interrupted set and an audio payload that fails to
\* decode still clears audioQueue and resets the cursor to the output clock.
C24_InterruptionHonouredOnFailedDecode ==
  [][ (outputAudioContext # Null /\ Called(calls', {"console.error"})
         /\ calls'[Len(calls')][2]) =>
        (audioQueue' = <<>> /\ nextStartTime' = clock) ]_vars

\* C25: a setMute() that flips the enabled flag of the tracks makes no call
\* and leaves isConnected, the session, the capture graph, the cursor and
\* audioQueue as they were; and a frame captured while the tracks are
\* disabled is encoded and, the session being open, sent like any other.
C25_MuteOnlyFlipsTrackFlag ==
  [][ /\ (trackEnabled' # trackEnabled /\ mic' = mic) =>
            /\ calls' = <<>>
            /\ UNCHANGED <<clientVars, mic, session, graph, inCtx, outCtx, conn, disc,
                           pending>>
      /\ (/\ UNCHANGED <<stream, sessionPromise, trackEnabled>>
          /\ stream # Null /\ ~trackEnabled[stream]
          /\ sessionPromise # Null /\ session[sessionPromise] = "open"
          /\ Called(calls', {"createPcmBlob"})
          /\ ~Called(calls', {"console.debug"})) =>
            Called(calls', {"sendRealtimeInput"})
    ]_vars

\* a frame was captured and sent while the tracks were muted, on a connected
\* client with a buffer in flight
C25_FrameSentWhileMuted ==
  /\ muteHist = "muted"
  /\ stream # Null
  /\ ~trackEnabled[stream]
  /\ isConnected
  /\ Called(calls, {"sendRealtimeInput"})
  /\ Len(audioQueue) > 0

C27_ClosedIsTerminal ==
  (DisconnectLast /\ DisconnectsSettled) => ~isConnected

\* C28: when a connect() made after a completed disconnect() creates the
\* output context of a new session, the cursor left by the session before is
\* not ahead of the new context's clock, so that the first buffer of the new
\* session starts at that clock.
C28_CursorNotCarriedOver ==
  [][ (/\ hist = "disconnect" /\ DisconnectsSettled /\ ConnectsSettled
       /\ outputAudioContext' # outputAudioContext /\ outputAudioContext' # Null) =>
        StartTime(nextStartTime', clock') = clock' ]_vars

\* C29: the duration counter advances only while the call is connected: the
\* client is connected, its session is open and no hang-up has begun.
C29_DurationAdvancesOnlyWhileConnected ==
  [][ duration' # duration =>
        /\ isConnected
        /\ sessionPromise # Null
        /\ session[sessionPromise] = "open"
        /\ \A h \in HangUps : hang[h].pc = "idle" ]_vars

\* C30: every Call Session Record carries the elapsed duration of its call,
\* the number of seconds counted while the call was connected.
C30_RecordCarriesDuration ==
  \A k \in 1..Len(sessions) : sessions[k].durationSeconds = duration

IsTranscript(c) == c[1] = "onTranscript"

\* the transcript events of cs, in order, each as a line tagged with its speaker
Received(cs) ==
  LET ts == SelectSeq(cs, IsTranscript)
  IN [i \in 1..Len(ts) |-> [speaker |-> IF ts[i][3] THEN "You" ELSE "persona",
                            text |-> ts[i][2]]]

\* C31: while the call screen is mounted every step appends to the transcript
\* exactly the transcript events the client forwards in it, in their order and
\* tagged with their speaker, and changes nothing else of it; what is handed to
\* onEndCall is the transcript as it stands then.
C31_TranscriptIsLinesInArrivalOrder ==
  [][ /\ transcriptRef' = IF isMountedRef THEN transcriptRef \o Received(calls')
                          ELSE transcriptRef
      /\ ended' # ended => ended' = Append(ended, transcriptRef) ]_vars

\* a transcript of a user line followed by a persona line was handed over
C31_TwoSpeakersHandedOver ==
  /\ Len(ended) = 1
  /\ Len(ended[1]) = 2
  /\ ended[1][1].speaker = "You"
  /\ ended[1][2].speaker = "persona"
  /\ ended[1][1].text # ended[1][2].text

\* the persona's lines of the transcript tr, joined
RECURSIVE PersonaText(_)
PersonaText(tr) ==
  IF tr = <<>> THEN <<>>
  ELSE (IF Head(tr).speaker = "persona" THEN Head(tr).text ELSE <<>>)
       \o PersonaText(Tail(tr))

\* C32: once the persona's transcribed output, joined over the call, contains
\* the end-of-call marker, a termination is eventually triggered: a timeout
\* that will call handleHangUp() is set, or handleHangUp() has been called.
C32_MarkerEventuallyEndsCall ==
  Includes(PersonaText(transcriptRef), Marker)
    ~> (timeouts # <<>> \/ \E h \in HangUps : hang[h].pc # "idle")

\* C33: whenever handleEndCall has set isProcessing, it is eventually cleared
\* with the application in the FEEDBACK state and a session record saved.
C33_ProcessingAlwaysEnds ==
  isProcessing ~> (~isProcessing /\ appState = "FEEDBACK" /\ sessions # <<>>)

\* C34: when the transcript is handed to onEndCall by a termination, a
\* disconnect() of the session has been invoked and has settled.
C34_DisconnectSettledBeforeHandOff ==
  [][ ended' # ended => \E d \in Discs : disc[d].pc = "done" ]_vars

\* C35: a connect() whose microphone request is denied rejects in that very
\* step without asking for the device again or for a remote session, and stays
\* rejected with no session of its own ever after; the device is requested only
\* by the step that takes a connect() from its second resume() to the wait for
\* the stream, a position no connect() returns to, and a remote session is
\* requested only by a connect() whose stream was granted.
C35_MicDenialRejectsOnce ==
  [][ /\ \A c \in Conns :
           (conn[c] = "gum" /\ conn'[c] = "rejected")
             => (~Acquires(calls') /\ session'[c] = "none" /\ mic'[c] = "none")
      /\ \A c \in Conns :
           (conn[c] = "rejected" /\ session[c] = "none")
             => (conn'[c] = "rejected" /\ session'[c] = "none" /\ mic'[c] = "none")
      /\ Called(calls', {"getUserMedia"})
           => Cardinality({c \in Conns : conn[c] = "resumeOut" /\ conn'[c] = "gum"}) = 1
      /\ Called(calls', {"live.connect"})
           => \E c \in Conns : conn[c] = "gum" /\ conn'[c] = "session" /\ mic'[c] = "live"
      /\ \A c \in Conns :
           conn[c] \in {"gum", "session", "resolved", "rejected"}
             => conn'[c] \notin {"resumeIn", "resumeOut"} /\ (conn'[c] = "gum" => conn[c] = "gum") ]_vars

\* a connect() was rejected with both its contexts open and no session: its
\* microphone request was denied; a later connect() of the same client has
\* gone on to request its own session
C35_DeniedThenConnectedAgain ==
  \E c, b \in Conns :
    /\ c < b
    /\ conn[c] = "rejected"
    /\ inCtx[c] = "open"
    /\ outCtx[c] = "open"
    /\ session[c] = "none"
    /\ session[b] = "opening"

\* C36: a startCall() that fails while the call screen is mounted puts the call
\* in the error state with a message that is neither empty nor missing; a call
\* in the error state stays there, and it has no duration timer.
C36_ConnectFailureShowsError ==
  [][ /\ (startCall.pc # "failed" /\ startCall'.pc = "failed" /\ isMountedRef)
           => (status' = "error" /\ errorMessage' \notin {"", NoMessage})
      /\ status = "error"
           => (status' = "error" /\ errorMessage' = errorMessage
                 /\ ~interval' /\ ~timerRef') ]_vars

\* connect() was rejected by the remote endpoint on a mounted call screen,
\* which shows the fallback message
C36_SessionRefusedShown ==
  /\ session[1] = "failed"
  /\ conn[1] = "rejected"
  /\ startCall.pc = "failed"
  /\ isMountedRef
  /\ status = "error"
  /\ errorMessage = "Connection failed"

\* the lines of the transcript tr said by speaker that contain the marker
MarkerLines(tr, speaker) ==
  {i \in 1..Len(tr) : tr[i].speaker = speaker /\ Includes(tr[i].text, Marker)}

\* C37: text transcribed from the user never ends the call: a step that
\* delivers no persona text with the marker sets no timeout, and a timeout is
\* pending or has called handleHangUp() only in a call whose persona said the
\* marker.
C37_UserTextNeverEndsCall ==
  [][ /\ ~PersonaMarker(calls') => Len(timeouts') <= Len(timeouts)
      /\ (timeouts' # <<>> \/ \E h \in HangUps : hang'[h].origin = "timer")
           => MarkerLines(transcriptRef', "persona") # {} ]_vars

\* the user has said the marker on a connected call, the persona has not; no
\* timeout is pending and the call has not ended
C37_UserSaidMarkerCallGoesOn ==
  /\ MarkerLines(transcriptRef, "You") # {}
  /\ MarkerLines(transcriptRef, "persona") = {}
  /\ status = "connected"
  /\ duration >= EndCallDelay
  /\ timeouts = <<>>
  /\ ended = <<>>
  /\ \A h \in HangUps : hang[h].pc = "idle"

\* C38: onClose is invoked at most once per remote session. The callbacks
\* onerror and onclose are the only callers of onClose, each runs at most once
\* per session, and onerror leaves the session errored: so no step that takes
\* an errored session further invokes onClose.
C38_OnCloseAtMostOncePerSession ==
  [][ \A c \in Conns :
        (session[c] = "errored" /\ session'[c] # session[c]) => ~OnClose(calls') ]_vars

\* C39: a duration timer is started only by the one step of startCall() that
\* follows the resolution of connect() on a mounted call screen, and never
\* while one is active; an active timer is the one timerRef holds; and no timer
\* is active once the call screen is unmounted.
C39_OneTimerNoneAfterUnmount ==
  [][ /\ (interval' /\ ~interval)
           => (startCall.pc = "connecting" /\ startCall'.pc = "done"
                 /\ isMountedRef /\ ~ignore)
      /\ (startCall.pc = "connecting" /\ startCall'.pc = "done" /\ timerRef')
           => (~interval /\ ~timerRef)
      /\ interval' => timerRef'
      /\ ~isMountedRef' => ~interval' ]_vars

\* the call screen was unmounted while handleHangUp() awaited disconnect(), on
\* a call whose timer had counted: the timer is gone
C39_UnmountedDuringHangUp ==
  /\ ~isMountedRef
  /\ status = "connected"
  /\ duration > 0
  /\ ~interval
  /\ \E h \in HangUps : hang[h].pc = "disconnecting"

====
